---------------------------- MODULE Spec2Model ----------------------------
(***************************************************************************)
(* Model of backend/pets/routes.py: the request handlers of the pet CRUD   *)
(* API over one document collection (DB.pet).                              *)
(*                                                                         *)
(* Every `await` on the store is one atomic step (the store gives          *)
(* single-document atomicity and nothing more), so a handler with several  *)
(* awaits is several steps and other requests may run between them.        *)
(* Timestamps are the value of the clock (datetime.utcnow()) at the moment *)
(* the handler reads it; isoformat() of a UTC datetime is order-preserving, *)
(* so a timestamp is modelled by the clock reading itself.                 *)
(* An ObjectId is a positive integer; the raw id 0 stands for a string     *)
(* that ObjectId() refuses to parse.                                       *)
(***************************************************************************)
EXTENDS Integers, Sequences, FiniteSets, Bags, TLC

\* ------------------------------------------------------------------ bounds
MaxPets == 2        \* ids the store hands out in Spec
MaxClock == 2       \* clock readings 0..MaxClock
MaxReqs == 2        \* handlers that may be suspended at an await at once
MaxListPets == 11   \* documents in the collection in SpecList
MaxStride == 3      \* SpecList: every a-th pet is a dog, every b-th is available

\* limit's default (the signature's, and the reset of a limit <= 0)
DefaultLimit == 10

\* -------------------------------------------------------------- the types
PetKind == {"dog", "cat"}
PetStatus == {"available", "adopted"}

\* The request bodies (PetBase) used by create and update in Spec.
PetBase == {[kind |-> "dog", status |-> "available"],
            [kind |-> "dog", status |-> "adopted"]}

NullPet == [kind |-> "", status |-> ""]

\* The id_ a request may carry: malformed (0), an id the store hands out, or a
\* well-formed id it never hands out (MaxPets + 1).
RawIds == 0..(MaxPets + 1)

VARIABLES
    store,      \* DB.pet: _id -> document (without its _id)
    next_id,    \* the next ObjectId insert_one hands out
    clock,      \* datetime.utcnow()
    reqs,       \* the bag of handlers suspended at an await
    resp,       \* the response sent by the last step (NoResp when it sent none)
    hist,       \* history per inserted id (what create stamped, what happened since)
    lst         \* the list request (get_all_pets) of SpecList

vars == <<store, next_id, clock, reqs, resp, hist, lst>>

\* A handler suspended at an await: the operation, the await it is at, and its locals.
Handler(op, pc, id_, pet, date_now) ==
    [op |-> op, pc |-> pc, id_ |-> id_, pet |-> pet, date_now |-> date_now]

\* The handlers in flight with q resumed: gone (it returned), or suspended again as n.
Return(q) == reqs (-) SetToBag({q})
Suspend(q, n) == (reqs (-) SetToBag({q})) (+) SetToBag({n})

\* The add_pet handlers that have not inserted yet (each will take an id).
PendingInserts ==
    BagCardinality([q \in {x \in BagToSet(reqs) : x.pc = "insert"} |-> reqs[q]])

NoResp == [op |-> "none", id_ |-> 0, status_code |-> 0, ret |-> "None",
           pet |-> <<>>, deleted_count |-> 0]

\* get_all_pets' locals; kind or status "" is None (not supplied). raw_limit and
\* raw_skip remember the query parameters, which the handler overwrites.
IdleList == [pc |-> "idle", kind |-> "", status |-> "", limit |-> 0, skip |-> 0,
             raw_limit |-> 0, raw_skip |-> 0, count |-> 0, pets |-> <<>>]

\* ------------------------------------------------------- helpers of the code

\* validate_object_id: the ObjectId, or <<>> for HTTPException(400).
validate_object_id(id_) == IF id_ >= 1 THEN <<id_>> ELSE <<>>

\* fix_pet_id: the document with its _id exposed as id_.
fix_pet_id(_id, pet) ==
    [id_ |-> _id, kind |-> pet.kind, status |-> pet.status,
     created_at |-> pet.created_at, last_modified |-> pet.last_modified]

\* DB.pet.find_one({"_id": _id}) on collection s.
find_one(s, _id) == IF _id \in DOMAIN s THEN <<s[_id]>> ELSE <<>>

\* _get_pet_or_404: [status_code, pet]; 400 from validate_object_id, 404 when absent.
get_pet_or_404(s, id_) ==
    LET v == validate_object_id(id_) IN
    IF v = <<>> THEN [status_code |-> 400, pet |-> <<>>]
    ELSE LET pet == find_one(s, v[1]) IN
         IF pet # <<>> THEN [status_code |-> 200, pet |-> <<fix_pet_id(v[1], pet[1])>>]
         ELSE [status_code |-> 404, pet |-> <<>>]

\* A variant that stamps last_modified from a later clock reading than created_at.
pet_data_two_stamps(pet, date_now) ==
    [kind |-> pet.kind, status |-> pet.status,
     created_at |-> date_now, last_modified |-> date_now + 1]

\* add_pet's pet_data: the payload with both timestamps set to date_now.
pet_data(pet, date_now) ==
    [kind |-> pet.kind, status |-> pet.status,
     created_at |-> date_now, last_modified |-> date_now]

\* A variant with upsert=True: an absent document is inserted.
update_one_upsert(s, _id, pet, date_now) ==
    IF _id \in DOMAIN s
    THEN [s EXCEPT ![_id] = [@ EXCEPT !.kind = pet.kind, !.status = pet.status,
                                      !.last_modified = date_now]]
    ELSE s @@ (_id :> pet_data(pet, date_now))

\* A variant whose $set also carries created_at.
update_one_restamp(s, _id, pet, date_now) ==
    IF _id \in DOMAIN s
    THEN [s EXCEPT ![_id] = pet_data(pet, date_now)]
    ELSE s

\* update_one({"_id": _id}, {"$set": pet_data}) with pet_data = payload + last_modified:
\* the collection afterwards (no upsert: an absent document stays absent).
update_one(s, _id, pet, date_now) ==
    IF _id \in DOMAIN s
    THEN [s EXCEPT ![_id] = [@ EXCEPT !.kind = pet.kind, !.status = pet.status,
                                      !.last_modified = date_now]]
    ELSE s

\* pet_op.modified_count of that update_one.
modified_count(s, _id, pet, date_now) ==
    IF _id \in DOMAIN s /\ update_one(s, _id, pet, date_now)[_id] # s[_id] THEN 1 ELSE 0

\* delete_one({"_id": _id}): the collection afterwards, and pet_op.deleted_count.
delete_one(s, _id) == [i \in DOMAIN s \ {_id} |-> s[i]]

deleted_count(s, _id) == IF _id \in DOMAIN s THEN 1 ELSE 0

\* (late_update: an update_one ran on the id after its delete.)
\* The history of an id after a write to it: only an id no update or delete has
\* written keeps what its create stamped; a deleted id keeps nothing but the fact.
Touch(h, _id, del) ==
    IF _id \in DOMAIN h
    THEN [h EXCEPT ![_id] =
            IF del
            THEN [input |-> NullPet, created_at |-> 0, untouched |-> FALSE,
                  returned |-> FALSE, deleted |-> TRUE, late_update |-> FALSE]
            ELSE [@ EXCEPT !.untouched = FALSE, !.input = NullPet]]
    ELSE h

Respond(op, id_, code, ret, pet, n) ==
    [op |-> op, id_ |-> id_, status_code |-> code, ret |-> ret,
     pet |-> pet, deleted_count |-> n]

\* ---------------------------------------------------------------- Init
Init ==
    /\ store = <<>>
    /\ next_id = 1
    /\ clock = 0
    /\ reqs = EmptyBag
    /\ resp = NoResp
    /\ hist = <<>>
    /\ lst = IdleList

\* datetime.utcnow() moves on.
Tick ==
    /\ clock < MaxClock
    /\ clock' = clock + 1
    /\ resp' = NoResp
    /\ UNCHANGED <<store, next_id, reqs, hist, lst>>

\* ---------------------------------------------------------------- add_pet
\* date_now = datetime.utcnow().isoformat(); the insert is awaited next.
AddPetStamp(pet) ==
    /\ BagCardinality(reqs) < MaxReqs
    /\ next_id + PendingInserts <= MaxPets
    /\ reqs' = reqs (+) SetToBag({Handler("add", "insert", 0, pet, clock)})
    /\ resp' = NoResp
    /\ UNCHANGED <<store, next_id, clock, hist, lst>>

\* await DB.pet.insert_one(pet_data)
AddPetInsert(q) ==
    /\ q.pc = "insert"
    /\ store' = store @@ (next_id :> pet_data(q.pet, q.date_now))
    /\ hist' = hist @@ (next_id :> [input |-> q.pet, created_at |-> q.date_now,
                                    untouched |-> TRUE, returned |-> FALSE,
                                    deleted |-> FALSE, late_update |-> FALSE])
    /\ next_id' = next_id + 1
    /\ reqs' = Suspend(q, Handler("add", "refetch", next_id, NullPet, 0))
    /\ resp' = NoResp
    /\ UNCHANGED <<clock, lst>>

\* pet = await _get_pet_or_404(pet_op.inserted_id); return pet
AddPetRefetch(q) ==
    /\ q.op = "add" /\ q.pc = "refetch"
    /\ LET g == get_pet_or_404(store, q.id_) IN
       /\ resp' = IF g.status_code = 200
                  THEN Respond("add", q.id_, 201, "pet", g.pet, 0)
                  ELSE Respond("add", q.id_, g.status_code, "HTTPException", <<>>, 0)
       /\ hist' = IF g.status_code = 200
                  THEN [hist EXCEPT ![q.id_].returned = TRUE]
                  ELSE hist
    /\ reqs' = Return(q)
    /\ UNCHANGED <<store, next_id, clock, lst>>

\* ---------------------------------------------------------- get_pet_by_id
\* Depends(validate_object_id), then one find_one.
GetPetById(id_) ==
    /\ LET v == validate_object_id(id_) IN
       IF v = <<>>
       THEN resp' = Respond("get", id_, 400, "HTTPException", <<>>, 0)
       ELSE LET pet == find_one(store, v[1]) IN
            IF pet # <<>>
            THEN resp' = Respond("get", id_, 200, "pet", <<fix_pet_id(v[1], pet[1])>>, 0)
            ELSE resp' = Respond("get", id_, 404, "HTTPException", <<>>, 0)
    /\ UNCHANGED <<store, next_id, clock, reqs, hist, lst>>

\* ------------------------------------------------------- delete_pet_by_id
\* dependencies=[Depends(_get_pet_or_404)]
DeleteCheck(id_) ==
    /\ BagCardinality(reqs) < MaxReqs
    /\ LET g == get_pet_or_404(store, id_) IN
       IF g.status_code = 200
       THEN /\ reqs' = reqs (+) SetToBag({Handler("delete", "delete", id_, NullPet, 0)})
            /\ resp' = NoResp
       ELSE /\ resp' = Respond("delete", id_, g.status_code, "HTTPException", <<>>, 0)
            /\ UNCHANGED reqs
    /\ UNCHANGED <<store, next_id, clock, hist, lst>>

\* pet_op = await DB.pet.delete_one(...); a status message only if deleted_count.
DeleteOne(q) ==
    /\ q.pc = "delete"
    /\ LET n == deleted_count(store, q.id_) IN
       /\ store' = delete_one(store, q.id_)
       /\ hist' = IF n = 1 THEN Touch(hist, q.id_, TRUE) ELSE hist
       /\ resp' = IF n # 0
                  THEN Respond("delete", q.id_, 200, "status", <<>>, n)
                  ELSE Respond("delete", q.id_, 200, "None", <<>>, n)
    /\ reqs' = Return(q)
    /\ UNCHANGED <<next_id, clock, lst>>

\* ------------------------------------------------------------- update_pet
\* A variant without Depends(_get_pet_or_404): only the id is validated.
UpdateCheckNoCheck(id_, pet) ==
    /\ BagCardinality(reqs) < MaxReqs
    /\ IF validate_object_id(id_) # <<>>
       THEN /\ reqs' = reqs (+) SetToBag({Handler("update", "stamp", id_, pet, 0)})
            /\ resp' = NoResp
       ELSE /\ resp' = Respond("update", id_, 400, "HTTPException", <<>>, 0)
            /\ UNCHANGED reqs
    /\ UNCHANGED <<store, next_id, clock, hist, lst>>

\* dependencies=[Depends(validate_object_id), Depends(_get_pet_or_404)]
UpdateCheck(id_, pet) ==
    /\ BagCardinality(reqs) < MaxReqs
    /\ LET g == get_pet_or_404(store, id_) IN
       IF g.status_code = 200
       THEN /\ reqs' = reqs (+) SetToBag({Handler("update", "stamp", id_, pet, 0)})
            /\ resp' = NoResp
       ELSE /\ resp' = Respond("update", id_, g.status_code, "HTTPException", <<>>, 0)
            /\ UNCHANGED reqs
    /\ UNCHANGED <<store, next_id, clock, hist, lst>>

\* pet_data['last_modified'] = datetime.utcnow().isoformat()
UpdateStamp(q) ==
    /\ q.pc = "stamp"
    /\ reqs' = Suspend(q, Handler("update", "write", q.id_, q.pet, clock))
    /\ resp' = NoResp
    /\ UNCHANGED <<store, next_id, clock, hist, lst>>

\* pet_op = await DB.pet.update_one(...); 304 unless modified_count.
UpdateWrite(q) ==
    /\ q.pc = "write"
    /\ LET n == modified_count(store, q.id_, q.pet, q.date_now) IN
       /\ store' = update_one(store, q.id_, q.pet, q.date_now)
       /\ hist' = IF n = 1 THEN Touch(hist, q.id_, FALSE)
                  ELSE IF q.id_ \in DOMAIN hist /\ hist[q.id_].deleted
                       THEN [hist EXCEPT ![q.id_].late_update = TRUE]
                       ELSE hist
       /\ IF n # 0
          THEN /\ reqs' = Suspend(q, Handler("update", "refetch", q.id_, NullPet, 0))
               /\ resp' = NoResp
          ELSE /\ resp' = Respond("update", q.id_, 304, "HTTPException", <<>>, 0)
               /\ reqs' = Return(q)
    /\ UNCHANGED <<next_id, clock, lst>>

\* return await _get_pet_or_404(id_)
UpdateRefetch(q) ==
    /\ q.op = "update" /\ q.pc = "refetch"
    /\ LET g == get_pet_or_404(store, q.id_) IN
       resp' = IF g.status_code = 200
               THEN Respond("update", q.id_, 200, "pet", g.pet, 0)
               ELSE Respond("update", q.id_, g.status_code, "HTTPException", <<>>, 0)
    /\ reqs' = Return(q)
    /\ UNCHANGED <<store, next_id, clock, hist, lst>>

\* ------------------------------------------------------------ get_all_pets
\* if skip < 0: skip = 0
norm_skip(skip) == IF skip < 0 THEN 0 ELSE skip

\* A variant that resets only a negative limit.
norm_limit_strict(limit) == IF limit < 0 THEN DefaultLimit ELSE limit

\* if limit <= 0: limit = 10
norm_limit(limit) == IF limit <= 0 THEN DefaultLimit ELSE limit

\* A variant that tests status alone first, so kind is dropped when both are given.
filter_db_status_first(kind, status) ==
    IF status # "" THEN [kind |-> "", status |-> status]
    ELSE IF kind # "" THEN [kind |-> kind, status |-> ""]
    ELSE [kind |-> "", status |-> ""]

\* filter_db: the equality filter of the keys supplied ("" is a key left out).
filter_db(kind, status) ==
    IF status # "" /\ kind # "" THEN [kind |-> kind, status |-> status]
    ELSE IF status # "" THEN [kind |-> "", status |-> status]
    ELSE IF kind # "" THEN [kind |-> kind, status |-> ""]
    ELSE [kind |-> "", status |-> ""]

\* The ids of the documents of s an equality filter selects.
find(s, f) ==
    {i \in DOMAIN s : /\ f.kind # "" => s[i].kind = f.kind
                      /\ f.status # "" => s[i].status = f.status}

\* DB.pet.count_documents(filter_db)
count_documents(s, f) == Cardinality(find(s, f))

\* .sort("created_at", -1): every order of ids by created_at descending; documents
\* with equal created_at come in any order.
RECURSIVE SortedOrders(_, _)
SortedOrders(s, ids) ==
    IF ids = {} THEN {<<>>}
    ELSE LET heads == {h \in ids : \A i \in ids : s[i].created_at <= s[h].created_at}
         IN UNION {{<<h>> \o o : o \in SortedOrders(s, ids \ {h})} : h \in heads}

\* Insertion order (ids ascending): the order of a find without sort, which the
\* variant of to_list below pages.
RECURSIVE NaturalOrder(_)
NaturalOrder(ids) ==
    IF ids = {} THEN <<>>
    ELSE LET h == CHOOSE h \in ids : \A i \in ids : h <= i
         IN <<h>> \o NaturalOrder(ids \ {h})

\* cursor.skip(n), cursor.limit(n) on an ordered result (n >= 0, limit n >= 1).
Skip(o, n) == SubSeq(o, n + 1, Len(o))
Limit(o, n) == SubSeq(o, 1, IF n < Len(o) THEN n ELSE Len(o))

\* A variant that applies skip and limit in the order of the chain, before the sort.
to_list_skip_first(s, f, skip, limit) ==
    LET page == Limit(Skip(NaturalOrder(find(s, f)), skip), limit)
    IN {[k \in 1..Len(o) |-> fix_pet_id(o[k], s[o[k]])] :
          o \in SortedOrders(s, {page[k] : k \in 1..Len(page)})}

\* find(filter_db).skip(skip).limit(limit).sort("created_at", -1), then
\* to_list(length=limit) and map(fix_pet_id): the lists the query may return. The
\* store sorts first, then skips, then limits, whatever the order of the chain.
to_list(s, f, skip, limit) ==
    {LET page == Limit(Limit(Skip(o, skip), limit), limit)
     IN [k \in 1..Len(page) |-> fix_pet_id(page[k], s[page[k]])] :
       o \in SortedOrders(s, find(s, f))}

\* The handler up to `pets_count = await DB.pet.count_documents(filter_db)`.
\* SpecList follows one list request on each collection.
GetAllPetsCount(kind, status, limit, skip) ==
    /\ lst.pc = "idle"
    /\ lst' = [pc |-> "to_list", kind |-> kind, status |-> status,
               limit |-> norm_limit(limit), skip |-> norm_skip(skip),
               raw_limit |-> limit, raw_skip |-> skip,
               count |-> count_documents(store, filter_db(kind, status)),
               pets |-> <<>>]
    /\ UNCHANGED <<store, next_id, clock, reqs, resp, hist>>

\* pets = await pets_cursor.to_list(length=limit); return {"pets": ..., "count": ...}
GetAllPetsToList ==
    /\ lst.pc = "to_list"
    /\ \E pets \in to_list(store, filter_db(lst.kind, lst.status), lst.skip, lst.limit) :
          lst' = [lst EXCEPT !.pc = "done", !.pets = pets]
    /\ UNCHANGED <<store, next_id, clock, reqs, resp, hist>>

\* The collection after n creates, one after the other: every a-th pet a dog, every
\* b-th available, one clock tick per create except that pets t and t+1 (t >= 1)
\* were created within the same tick.
CreatedStore(n, a, b, t) ==
    [i \in 1..n |->
        pet_data([kind |-> IF i % a = 0 THEN "dog" ELSE "cat",
                  status |-> IF i % b = 0 THEN "available" ELSE "adopted"],
                 IF t >= 1 /\ i > t THEN i - 1 ELSE i)]

InitList ==
    /\ \E n \in 0..MaxListPets, a \in 1..MaxStride, b \in 1..MaxStride :
         \E t \in 0..n :
           /\ store = CreatedStore(n, a, b, t)
           /\ next_id = n + 1
           /\ clock = n
           /\ hist = [i \in 1..n |->
                        [input |-> [kind |-> store[i].kind, status |-> store[i].status],
                         created_at |-> store[i].created_at, untouched |-> TRUE,
                         returned |-> TRUE, deleted |-> FALSE, late_update |-> FALSE]]
    /\ reqs = EmptyBag
    /\ resp = NoResp
    /\ lst = IdleList

ListLimits == {-1, 0, 1, 3, 10}
ListSkips == {-1, 0, 1, 2}

NextList ==
    \/ \E kind \in PetKind \cup {""}, status \in PetStatus \cup {""},
          limit \in ListLimits, skip \in ListSkips :
            GetAllPetsCount(kind, status, limit, skip)
    \/ GetAllPetsToList

SpecList == InitList /\ [][NextList]_vars

Next ==
    \/ Tick
    \/ \E pet \in PetBase : AddPetStamp(pet)
    \/ \E q \in BagToSet(reqs) : AddPetInsert(q)
    \/ \E q \in BagToSet(reqs) : AddPetRefetch(q)
    \/ \E id_ \in RawIds : GetPetById(id_)
    \/ \E id_ \in RawIds : DeleteCheck(id_)
    \/ \E q \in BagToSet(reqs) : DeleteOne(q)
    \/ \E id_ \in RawIds, pet \in PetBase : UpdateCheck(id_, pet)
    \/ \E q \in BagToSet(reqs) : UpdateStamp(q)
    \/ \E q \in BagToSet(reqs) : UpdateWrite(q)
    \/ \E q \in BagToSet(reqs) : UpdateRefetch(q)

Spec == Init /\ [][Next]_vars

\* ================================================================ claims

PayloadOf(pet) == [kind |-> pet.kind, status |-> pet.status]

\* C1: a get_pet_by_id on an id that a create has returned, with no update_one or
\* delete_one having written that id since its insert, answers 200 with a document
\* whose payload fields are the create's input and whose created_at and
\* last_modified are equal.
C1_CreateThenGet ==
    [][\A id_ \in RawIds :
         (/\ GetPetById(id_)
          /\ id_ \in DOMAIN hist
          /\ hist[id_].returned /\ hist[id_].untouched)
         => /\ resp'.status_code = 200
            /\ Len(resp'.pet) = 1
            /\ PayloadOf(resp'.pet[1]) = hist[id_].input
            /\ resp'.pet[1].created_at = resp'.pet[1].last_modified]_vars

\* A get has just answered 200 for an id whose create returned and that nothing
\* has written since.
C1_Witness ==
    /\ resp.op = "get" /\ resp.status_code = 200
    /\ resp.id_ \in DOMAIN hist
    /\ hist[resp.id_].returned /\ hist[resp.id_].untouched
    /\ resp.pet[1].created_at > 0

\* C2: once delete_one has removed a document, every later get_pet_by_id on its id
\* answers 404, whatever ran in between (an update_one that was in flight included).
C2_DeleteThenGet ==
    [][\A id_ \in RawIds :
         (GetPetById(id_) /\ id_ \in DOMAIN hist /\ hist[id_].deleted)
         => resp'.status_code = 404]_vars

\* A get has just answered 404 for a deleted id on which an update that had passed
\* its existence check ran its update_one after the delete.
C2_Witness ==
    /\ resp.op = "get" /\ resp.status_code = 404
    /\ resp.id_ \in DOMAIN hist
    /\ hist[resp.id_].deleted /\ hist[resp.id_].late_update

\* C3 (as claimed): an update_one of update_pet whose payload equals the fields
\* stored for that pet ends in 304 Not Modified.
C3_IdenticalUpdateNotModified ==
    [][\A q \in BagToSet(reqs) :
         (/\ UpdateWrite(q)
          /\ q.id_ \in DOMAIN store
          /\ PayloadOf(store[q.id_]) = q.pet)
         => resp'.op = "update" /\ resp'.status_code = 304]_vars

\* C4: an update_pet on a well-formed id that no stored document has answers 404
\* at its existence check: the store is unchanged and no handler goes on to write.
C4_UpdateMissing ==
    [][\A id_ \in RawIds, pet \in PetBase :
         (/\ UpdateCheck(id_, pet)
          /\ validate_object_id(id_) # <<>>
          /\ id_ \notin DOMAIN store)
         => /\ resp'.op = "update" /\ resp'.status_code = 404
            /\ store' = store
            /\ reqs' = reqs]_vars

\* An update has just answered 404 for a well-formed id that was never inserted,
\* on a store that holds a document.
C4_Witness ==
    /\ resp.op = "update" /\ resp.status_code = 404
    /\ validate_object_id(resp.id_) # <<>>
    /\ resp.id_ \notin DOMAIN hist
    /\ DOMAIN store # {}

\* C5 (as claimed): a delete_pet_by_id that passed its existence check returns the
\* status message, with a deleted count of 1.
C5_DeletedCountOne ==
    (resp.op = "delete" /\ resp.status_code = 200)
    => (resp.ret = "status" /\ resp.deleted_count = 1)

\* C8: every stored pet has created_at <= last_modified, and its created_at is
\* the one its create stamped.
C8_CreatedAtKept ==
    \A i \in DOMAIN store :
        /\ store[i].created_at <= store[i].last_modified
        /\ i \in DOMAIN hist
        /\ store[i].created_at = hist[i].created_at

\* A stored pet that an update has re-stamped later than its creation, while
\* another update of it holds an older stamp it has yet to write.
C8_Witness ==
    \E i \in DOMAIN store :
        /\ store[i].created_at < store[i].last_modified
        /\ \E q \in BagToSet(reqs) :
              q.pc = "write" /\ q.id_ = i /\ q.date_now < store[i].last_modified

\* C10 (as claimed): when update_pet answers 304 the document is in the store at
\* the time of the write (a missing document is answered 404, never 304).
C10_NotModifiedMeansPresent ==
    (resp.op = "update" /\ resp.status_code = 304) => resp.id_ \in DOMAIN store

\* ------------------------------------------------------- claims on the list

\* The ids a (kind, status) query matches; "" is a key left out, matching any value.
MatchingIds(s, kind, status) ==
    {i \in DOMAIN s : /\ kind = "" \/ s[i].kind = kind
                      /\ status = "" \/ s[i].status = status}

MinOf(a, b) == IF a < b THEN a ELSE b

\* pets is the page (skip, limit) of the matches of (kind, status) in s in some
\* order by created_at descending: the documents as stored, each once, in
\* descending order, as many as the page holds, each at a rank its created_at allows.
IsPageOf(pets, s, kind, status, skip, limit) ==
    LET m == MatchingIds(s, kind, status)
        n == Cardinality(m)
    IN /\ Len(pets) = MinOf(limit, IF n > skip THEN n - skip ELSE 0)
       /\ \A k \in 1..Len(pets) :
            /\ pets[k].id_ \in m
            /\ pets[k] = fix_pet_id(pets[k].id_, s[pets[k].id_])
            /\ \A j \in 1..Len(pets) : pets[j].id_ = pets[k].id_ => j = k
            /\ k < Len(pets) => pets[k].created_at >= pets[k + 1].created_at
            /\ Cardinality({i \in m : s[i].created_at > pets[k].created_at})
                 <= skip + k - 1
            /\ Cardinality({i \in m : s[i].created_at >= pets[k].created_at})
                 >= skip + k

\* C6 (as claimed): list returns at most limit documents, for every limit, and
\* count is the number of stored documents matching the filter.
C6_AtMostLimit ==
    lst.pc = "done"
    => /\ Len(lst.pets) <= lst.raw_limit
       /\ lst.count = Cardinality(MatchingIds(store, lst.kind, lst.status))

\* C6 (amended): list returns at most limit documents when limit > 0 and at most
\* 10 when limit <= 0, and count is the number of stored documents matching the
\* filter, whatever skip and limit are.
C6_AtMostEffectiveLimit ==
    lst.pc = "done"
    => /\ Len(lst.pets) <= (IF lst.raw_limit > 0 THEN lst.raw_limit ELSE 10)
       /\ lst.count = Cardinality(MatchingIds(store, lst.kind, lst.status))

\* A list with limit <= 0, a skip of 1 and a status filter returned 10 documents
\* of 11 matches.
C6_Witness ==
    /\ lst.pc = "done"
    /\ lst.raw_limit <= 0 /\ lst.raw_skip = 1
    /\ lst.status # ""
    /\ Len(lst.pets) = 10
    /\ lst.count = 11

\* C7: a list with a negative skip returns a result of the same query with skip 0,
\* and one with limit <= 0 a result of the same query with limit 10 (documents of
\* equal created_at may come in either order in both).
C7_Normalization ==
    (lst.pc = "done" /\ (lst.raw_skip < 0 \/ lst.raw_limit <= 0))
    => /\ IsPageOf(lst.pets, store, lst.kind, lst.status,
                   IF lst.raw_skip < 0 THEN 0 ELSE lst.raw_skip,
                   IF lst.raw_limit <= 0 THEN 10 ELSE lst.raw_limit)
       /\ lst.count = Cardinality(MatchingIds(store, lst.kind, lst.status))

\* A list with skip < 0 and limit = 0 returned the 10 newest of 11 stored
\* documents.
C7_Witness ==
    /\ lst.pc = "done"
    /\ lst.raw_skip < 0 /\ lst.raw_limit = 0
    /\ Len(lst.pets) = 10
    /\ lst.count = 11
    /\ lst.pets[1].id_ = 11

\* C9: the pets of a list are the documents matching the filter in created_at
\* descending order, less the first skip of them, cut to limit: what sorting
\* before skip and limit gives.
C9_SortThenSkipLimit ==
    lst.pc = "done"
    => IsPageOf(lst.pets, store, lst.kind, lst.status, lst.skip, lst.limit)

\* A list that skipped 2 and kept 3 of at least 6 matches, whose first document
\* is neither the first inserted nor the third.
C9_Witness ==
    /\ lst.pc = "done"
    /\ lst.skip = 2 /\ lst.limit = 3
    /\ lst.count >= 6
    /\ Len(lst.pets) = 3
    /\ lst.pets[1].id_ > 3
    /\ lst.pets[1].created_at = lst.pets[2].created_at

=============================================================================
